---- MODULE Spec2Model ----
(***************************************************************************)
(* Model of server/lib/tasks/python/ivis/ivis/ts/_rw.py: the paged raw     *)
(* reader (TsReader), the bucket resampler (TsAggReader) and its gap       *)
(* interpolator (linear_interp), the interval parser (logical_delta), the   *)
(* cadence estimator (estimate_delta) and the future-timestamp cursor      *)
(* (TsDelta).  Each component has its own specification (Spec, SpecInterp, *)
(* SpecAgg, SpecParse, SpecEst, SpecCursor); `mode` tells which one a      *)
(* behaviour belongs to, and the variables of the others stay as they are. *)
(*                                                                         *)
(* Time is counted in ticks; TicksPerSec ticks make one second, so a       *)
(* timestamp whose tick is not a multiple of TicksPerSec has a non-zero    *)
(* millisecond part.  The store (Elasticsearch) is a sorted sequence of    *)
(* rows [ts, v]; it only grows, by rows later than every stored one.       *)
(***************************************************************************)
EXTENDS Integers, Sequences, FiniteSets, TLC

\* ---------------------------------------------------------------- bounds
PageSize == 2        \* batch_size of _read (10000 in the source), scaled
MaxTs == 6           \* latest tick a row of the raw store may carry
TicksPerSec == 2     \* resolution of the clock: ticks per second
MaxLen == 5          \* longest sequence given to linear_interp alone
MaxAggTs == 7        \* latest tick a row of the resampled store may carry
Buckets == 3         \* buckets of read_ts_resampled2 (100 in the source), scaled
MaxStr == 3          \* longest interval string given to the parsers
MaxEstTs == 10       \* latest timestamp (seconds) given to estimate_delta
SampleSize == 4      \* sample_size of estimate_delta (1000 in the source), scaled
MaxCalls == 4        \* calls made on TsDelta cursors in one behaviour
MaxCursors == 2      \* TsDelta references alive in one behaviour

\* Python's None (also the '' default of from_ts / to_ts, both falsy)
None == -1

\* the value a row written at tick t carries, when it carries one
RowVal(t) == ((t * 3) % 7) + 1

Min(a, b) == IF a < b THEN a ELSE b
Max(a, b) == IF a > b THEN a ELSE b
Last(s) == s[Len(s)]

RECURSIVE Gcd(_, _)
Gcd(a, b) == IF b = 0 THEN a ELSE Gcd(b, a % b)
RECURSIVE LcmUpTo(_)
LcmUpTo(n) == IF n <= 1 THEN 1 ELSE (LcmUpTo(n - 1) * n) \div Gcd(LcmUpTo(n - 1), n)

\* Values are Python floats; the model writes the number x as the integer
\* x * Unit, and Unit is divisible by every divisor an average or an
\* interpolation step can have within the bounds, so each division is exact.
Unit == LcmUpTo(2 * TicksPerSec) * LcmUpTo(Max(MaxLen, MaxAggTs))

VARIABLES
    mode,        \* which component this behaviour exercises
    store,       \* the index: rows [ts, v], ascending by ts
    latest_ts,   \* self.latest_ts (None until a read returned rows)
    from_ts,     \* TsReader.from_ts
    to_ts,       \* TsReader.to_ts
    pc,          \* "idle" or the loop the running read() is in
    i,           \* page counter of _read
    timestamps,  \* _read: accumulated raw timestamps
    values,      \* _read: accumulated values
    res_len,     \* len(res) of the last page request of the running read
    requests,    \* page requests issued by the running / last read
    ret,         \* what the last read() gave its caller
    snap_len,    \* rows in the store when the running / last read began
    hw_before,   \* latest_ts when the running / last read began
    done_len,    \* rows in the store when the last read ended
    prev,        \* the call before: [status, snap_len, done_len, hw, requests]
    seen,        \* raw timestamps returned by reads before the last one
    data,        \* linear_interp: the list it works on, in place
    data_in,     \* the list as it was handed to linear_interp
    interp_ret,  \* how linear_interp ended: "none", "ok" or the exception
    agg_interval,\* TsAggReader.agg_interval: the number n of the string 'ns'
    first_ts,    \* read_ts_resampled2: start of the next sub-range
    agg_ts,      \* read_ts_resampled2: ts, the bucket timestamps kept so far
    agg_vs,      \* read_ts_resampled2: vs, the bucket values kept so far
    queries,     \* aggregation queries issued by the running / last read
    dropped,     \* timestamp of the bucket the last query's result lost
    stitched,    \* vs as the last read handed it to linear_interp
    hist_ok,     \* every histogram of the running / last read began and
                 \* ended with a bucket that has a value
    agg_seen,    \* bucket timestamps returned by reads before the last one
    agg_dirty,   \* a row was added while the running / last agg read ran
    interval,    \* the interval string given to the parsers, as characters
    parsed,      \* what logical_delta(interval) gave
    parsed_end,  \* what the parsing part of estimate_end_ts gave
    est_in,      \* estimate_delta: the timestamps argument
    est_out,     \* estimate_delta: the TsDelta it returned, or the exception
    heap,        \* the TsDelta objects, in the order they were created
    cur_out,     \* the last call on a TsDelta: [op, obj, value]
    calls,       \* calls made on TsDelta objects so far
    hist         \* per TsDelta object, what the properties compare with

readerLoc == <<from_ts, to_ts, i, timestamps, values, res_len, requests,
               snap_len, hw_before, done_len, prev, seen>>
interpVars == <<data, data_in, interp_ret>>
aggLoc == <<agg_interval, first_ts, agg_ts, agg_vs, queries, dropped, stitched,
            hist_ok, agg_seen, agg_dirty>>
parseVars == <<interval, parsed, parsed_end>>
estVars == <<est_in, est_out>>
curVars == <<heap, cur_out, calls, hist>>
pureVars == <<parseVars, estVars, curVars>>
vars == <<mode, store, latest_ts, pc, ret, readerLoc, interpVars, aggLoc,
          pureVars>>

NoParsed == [status |-> "none", num |-> 0, months |-> 0, ms |-> 0]
NoEst == [status |-> "none", last_ts |-> 0, delta2 |-> 0]
NoOut == [op |-> "none", obj |-> 0, value |-> 0, peeks |-> 0]

\* the variables of a component no behaviour of the specification uses
ParseIdle == interval = <<>> /\ parsed = NoParsed /\ parsed_end = NoParsed
EstIdle == est_in = <<>> /\ est_out = NoEst
NoHeap == [objs |-> <<>>, refs |-> <<>>]
CursorIdle == heap = NoHeap /\ cur_out = NoOut /\ calls = 0 /\ hist = <<>>
PureIdle == ParseIdle /\ EstIdle /\ CursorIdle
InterpIdle == data = <<>> /\ data_in = <<>> /\ interp_ret = "none"
AggIdle ==
    /\ agg_interval = 1
    /\ first_ts = None
    /\ agg_ts = <<>>
    /\ agg_vs = <<>>
    /\ queries = 0
    /\ dropped = None
    /\ stitched = <<>>
    /\ hist_ok = TRUE
    /\ agg_seen = {}
    /\ agg_dirty = FALSE

NoRet == [status |-> "none", ts |-> <<>>, vs |-> <<>>]

\* _string2date: the instant (in milliseconds) a stored timestamp denotes
String2Date(s) == (s * 1000) \div TicksPerSec

\* map(lambda x: x[self.ts_field], res), map(lambda x: x[self.value_field], res)
TsOf(rows) == [k \in 1..Len(rows) |-> rows[k].ts]
ValOf(rows) == [k \in 1..Len(rows) |-> rows[k].v]

\* [_string2date(x) for x in timestamps]
Dates(tss) == [k \in 1..Len(tss) |-> String2Date(tss[k])]

Search_Gte(st, from, to, latest) ==
    SelectSeq(st, LAMBDA r :
        /\ (from # None => r.ts >= from)
        /\ (to # None => r.ts < to)
        /\ (latest # None => r.ts >= latest))

\* the Search object built at the top of _read: sort asc + range filters
Search(st, from, to, latest) ==
    SelectSeq(st, LAMBDA r :
        /\ (from # None => r.ts >= from)
        /\ (to # None => r.ts < to)
        /\ (latest # None => r.ts > latest))

Slice_Short(s, lo, hi) == SubSeq(s, lo + 1, Min(hi - 1, Len(s)))

\* Python slice s[lo:hi] (0-based, hi exclusive, clipped)
Slice(s, lo, hi) == SubSeq(s, lo + 1, Min(hi, Len(s)))

\* s[i * batch_size:(i + 1) * batch_size].execute()
Execute(st, from, to, latest, page) ==
    Slice(Search(st, from, to, latest), page * PageSize, (page + 1) * PageSize)

LastPage_Empty(n) == n = 0

\* if len(res) < batch_size: break
LastPage(n) == n < PageSize

NewLatest_First(old, tss) == IF Len(tss) > 0 THEN tss[1] ELSE old

\* if len(timestamps) > 0: self.set_latest(timestamps[-1])
NewLatest(old, tss) == IF Len(tss) > 0 THEN Last(tss) ELSE old

LatestOnError_Partial(old, tss) == IF Len(tss) > 0 THEN Last(tss) ELSE old

\* latest_ts after a page request raised: _read never reaches set_latest
LatestOnError(old, tss) == old

NoPrev == [status |-> "none", snap_len |-> 0, done_len |-> 0, hw |-> None,
           requests |-> 0]

ReaderIdle ==
    /\ store = <<>>
    /\ latest_ts = None
    /\ from_ts = None
    /\ to_ts = None
    /\ pc = "idle"
    /\ i = 0
    /\ timestamps = <<>>
    /\ values = <<>>
    /\ res_len = 0
    /\ requests = 0
    /\ ret = NoRet
    /\ snap_len = 0
    /\ hw_before = None
    /\ done_len = 0
    /\ prev = NoPrev
    /\ seen = {}

ReaderInit ==
    /\ mode = "reader"
    /\ store = <<>>
    /\ latest_ts = None
    /\ from_ts \in {None, 2}
    /\ to_ts \in {None, MaxTs}
    /\ pc = "idle"
    /\ i = 0
    /\ timestamps = <<>>
    /\ values = <<>>
    /\ res_len = 0
    /\ requests = 0
    /\ ret = NoRet
    /\ snap_len = 0
    /\ hw_before = None
    /\ done_len = 0
    /\ prev = NoPrev
    /\ seen = {}
    /\ data = <<>>
    /\ data_in = <<>>
    /\ interp_ret = "none"
    /\ agg_interval = 1
    /\ first_ts = None
    /\ agg_ts = <<>>
    /\ agg_vs = <<>>
    /\ queries = 0
    /\ dropped = None
    /\ stitched = <<>>
    /\ hist_ok = TRUE
    /\ agg_seen = {}
    /\ agg_dirty = FALSE
    /\ PureIdle

\* a writer adds a row later than every stored one (at any time)
AppendRow ==
    /\ mode = "reader"
    /\ \E t \in 1..MaxTs :
        /\ (Len(store) > 0 => t > Last(store).ts)
        /\ store' = Append(store, [ts |-> t, v |-> RowVal(t)])
    /\ UNCHANGED <<mode, latest_ts, pc, ret, readerLoc, interpVars, pureVars, aggLoc>>

\* TsReader.read() is entered: lines 57-73
ReadStart ==
    /\ mode = "reader"
    /\ pc = "idle"
    /\ pc' = "paging"
    /\ i' = 0
    /\ timestamps' = <<>>
    /\ values' = <<>>
    /\ res_len' = 0
    /\ requests' = 0
    /\ ret' = NoRet
    /\ snap_len' = Len(store)
    /\ hw_before' = latest_ts
    /\ prev' = [status |-> ret.status, snap_len |-> snap_len,
                done_len |-> done_len, hw |-> hw_before, requests |-> requests]
    /\ seen' = seen \cup {timestamps[k] : k \in 1..Len(timestamps)}
    /\ UNCHANGED <<mode, store, latest_ts, from_ts, to_ts, done_len, interpVars, pureVars,
                   aggLoc>>

\* one iteration of the while loop (lines 74-81) and, on the last page,
\* the rest of _read (lines 83-89)
ReadPage ==
    /\ mode = "reader"
    /\ pc = "paging"
    /\ LET res == Execute(store, from_ts, to_ts, latest_ts, i)
           tss == timestamps \o TsOf(res)
           vss == values \o ValOf(res)
       IN /\ timestamps' = tss
          /\ values' = vss
          /\ i' = i + 1
          /\ res_len' = Len(res)
          /\ requests' = requests + 1
          /\ IF LastPage(Len(res))
             THEN /\ latest_ts' = NewLatest(latest_ts, tss)
                  /\ ret' = [status |-> "ok", ts |-> Dates(tss),
                             vs |-> vss]
                  /\ pc' = "idle"
                  /\ done_len' = Len(store)
             ELSE UNCHANGED <<latest_ts, ret, pc, done_len>>
    /\ UNCHANGED <<mode, store, from_ts, to_ts, snap_len, hw_before, prev, seen,
                   interpVars, pureVars, aggLoc>>

\* the page request raises (store communication error): the exception
\* leaves _read, nothing is returned
ReadPageFail ==
    /\ mode = "reader"
    /\ pc = "paging"
    /\ requests' = requests + 1
    /\ latest_ts' = LatestOnError(latest_ts, timestamps)
    /\ timestamps' = <<>>
    /\ values' = <<>>
    /\ ret' = [status |-> "error", ts |-> <<>>, vs |-> <<>>]
    /\ pc' = "idle"
    /\ done_len' = Len(store)
    /\ UNCHANGED <<mode, store, from_ts, to_ts, i, res_len, snap_len,
                   hw_before, prev, seen, interpVars, pureVars, aggLoc>>

ReaderNext == AppendRow \/ ReadStart \/ ReadPage \/ ReadPageFail

Spec == ReaderInit /\ [][ReaderNext]_vars

\* ------------------------------------------------- TsReader: properties

\* the rows a read starting with n stored rows and high-water mark hw must give
Matching(n, hw) == Search(SubSeq(store, 1, n), from_ts, to_ts, hw)

Ascending(s) == \A a, b \in 1..Len(s) : a < b => s[a] < s[b]

Returned == pc = "idle" /\ ret.status = "ok"

\* C1: a read during which the store does not change returns exactly the
\* rows inside the reader's range (and above the high-water mark), each
\* once, in ascending timestamp order, whatever their number is relative to
\* the page size.
C1_ReadReturnsEveryRow ==
    (Returned /\ Len(store) = snap_len) =>
        /\ ret.ts = Dates(TsOf(Matching(snap_len, hw_before)))
        /\ ret.vs = ValOf(Matching(snap_len, hw_before))
        /\ Len(ret.ts) = Cardinality({r \in {store[k] : k \in 1..snap_len} :
                /\ (from_ts # None => r.ts >= from_ts)
                /\ (to_ts # None => r.ts < to_ts)
                /\ (hw_before # None => r.ts > hw_before)})
        /\ Ascending(ret.ts)

C1_Witness ==
    /\ Returned
    /\ Len(store) = snap_len
    /\ Len(ret.ts) = 2 * PageSize + 1
    /\ requests = 3

\* C2: with N matching rows the loop issues exactly N \div PageSize + 1 page
\* requests (one extra, empty one when N is a multiple of the page size),
\* never more while it runs, and never one after a page shorter than the
\* page size.
C2_PageRequests ==
    /\ (Returned /\ Len(store) = snap_len) =>
            requests = (Len(Matching(snap_len, hw_before)) \div PageSize) + 1
    /\ (pc = "paging" /\ Len(store) = snap_len) =>
            requests <= Len(Matching(snap_len, hw_before)) \div PageSize
    /\ (pc = "paging" /\ requests > 0) => res_len = PageSize

C2_Witness ==
    /\ Returned
    /\ Len(store) = snap_len
    /\ Len(ret.ts) = 2 * PageSize
    /\ requests = 3
    /\ res_len = 0

\* C3: a read that follows a returned read with no row added since that
\* read ended returns empty timestamps and values and leaves the high-water
\* mark as the first read left it.
C3_SecondReadEmpty ==
    (Returned /\ prev.status = "ok" /\ Len(store) = prev.done_len) =>
        /\ ret.ts = <<>>
        /\ ret.vs = <<>>
        /\ latest_ts = hw_before

C3_Witness ==
    /\ Returned
    /\ prev.status = "ok"
    /\ Len(store) = prev.done_len
    /\ latest_ts # None
    /\ latest_ts = Last(store).ts

\* C4: a returned non-empty read leaves the high-water mark at its last
\* timestamp, every timestamp it returns is greater than every timestamp an
\* earlier read returned, and the high-water mark never decreases.
C4_Incremental ==
    [][/\ latest_ts' >= latest_ts
       /\ (pc' = "idle" /\ ret'.status = "ok" /\ ret'.ts # <<>>) =>
            /\ String2Date(latest_ts') = Last(ret'.ts)
            /\ \A k \in 1..Len(timestamps') : \A s \in seen' :
                    timestamps'[k] > s]_vars

C4_Witness ==
    /\ Returned
    /\ ret.ts # <<>>
    /\ seen # {}
    /\ Len(store) > snap_len

\* C5: a read whose page request fails (the first or a later one) returns
\* nothing and leaves the high-water mark as it was before the call; the
\* read retried after it, with the store as the failed read found it,
\* returns exactly the rows the failed read had to return.
C5_FailedReadLeavesMark ==
    /\ (pc = "idle" /\ ret.status = "error") =>
            /\ latest_ts = hw_before
            /\ ret.ts = <<>>
            /\ ret.vs = <<>>
    /\ (Returned /\ prev.status = "error" /\ Len(store) = prev.snap_len) =>
            /\ hw_before = prev.hw
            /\ ret.ts = Dates(TsOf(Matching(prev.snap_len, prev.hw)))
            /\ ret.vs = ValOf(Matching(prev.snap_len, prev.hw))

C5_Witness ==
    /\ Returned
    /\ prev.status = "error"
    /\ prev.requests = 2
    /\ Len(store) = prev.snap_len
    /\ Len(ret.ts) > PageSize

\* ------------------------------------------------------- linear_interp

\* data[k] as Python reads it: k is 0-based and a negative k counts from
\* the end of the list
PyGet(d, k) == IF k < 0 THEN d[Len(d) + k + 1] ELSE d[k + 1]

\* the inner search loop: the first k in range(i+1, len(data)) with
\* data[k] != None, and -1 (the initial j) when there is none
FirstPresent(d, i0) ==
    LET ks == {k \in (i0 + 1)..(Len(d) - 1) : d[k + 1] # None}
    IN IF ks = {} THEN -1 ELSE CHOOSE k \in ks : \A m \in ks : k <= m

StepOf_Off(left, right, i0, j0) == (right - left) \div (j0 - i0)

\* step = (right-left)/(j-i+1)
StepOf(left, right, i0, j0) == (right - left) \div (j0 - i0 + 1)

RECURSIVE Fill(_, _, _, _)
RECURSIVE Fill_Short(_, _, _, _)
Fill_Short(d, m, j0, step) ==
    IF m >= j0 - 1 THEN d
    ELSE Fill_Short([d EXCEPT ![m + 1] = PyGet(d, m - 1) + step], m + 1, j0, step)

\* for m in range(i, j): data[m] = data[m - 1] + step
Fill(d, m, j0, step) ==
    IF m >= j0 THEN d
    ELSE Fill([d EXCEPT ![m + 1] = PyGet(d, m - 1) + step], m + 1, j0, step)

\* for i in range(len(data)), from index i0 on; an arithmetic operation on
\* None raises TypeError and ends the function with the list as it is then
RECURSIVE InterpFrom(_, _)
InterpFrom(d, i0) ==
    IF i0 >= Len(d) THEN [status |-> "ok", data |-> d]
    ELSE IF d[i0 + 1] # None THEN InterpFrom(d, i0 + 1)
    ELSE LET j0 == FirstPresent(d, i0)
             left == PyGet(d, i0 - 1)
             right == PyGet(d, j0)
         IN IF left = None \/ right = None
            THEN [status |-> "TypeError", data |-> d]
            ELSE IF j0 - i0 + 1 = 0
            THEN [status |-> "ZeroDivisionError", data |-> d]
            ELSE InterpFrom(Fill(d, i0, j0, StepOf(left, right, i0, j0)), i0 + 1)

linear_interp(d) == InterpFrom(d, 0)

InterpVals == {1, 2, 4, 8}

RECURSIVE SeqsUpTo(_, _)
SeqsUpTo(S, n) ==
    IF n = 0 THEN {<<>>}
    ELSE LET shorter == SeqsUpTo(S, n - 1)
         IN shorter \cup {Append(q, x) : q \in {r \in shorter : Len(r) = n - 1}, x \in S}

\* x as the model writes it
Num(x) == x * Unit
Nums(q) == [k \in 1..Len(q) |-> IF q[k] = None THEN None ELSE Num(q[k])]

InterpInit ==
    /\ mode = "interp"
    /\ store = <<>>
    /\ latest_ts = None
    /\ from_ts = None
    /\ to_ts = None
    /\ pc = "idle"
    /\ i = 0
    /\ timestamps = <<>>
    /\ values = <<>>
    /\ res_len = 0
    /\ requests = 0
    /\ ret = NoRet
    /\ snap_len = 0
    /\ hw_before = None
    /\ done_len = 0
    /\ prev = NoPrev
    /\ seen = {}
    /\ \E q \in SeqsUpTo(InterpVals \cup {None}, MaxLen) : data = Nums(q)
    /\ data_in = data
    /\ interp_ret = "none"
    /\ agg_interval = 1
    /\ first_ts = None
    /\ agg_ts = <<>>
    /\ agg_vs = <<>>
    /\ queries = 0
    /\ dropped = None
    /\ stitched = <<>>
    /\ hist_ok = TRUE
    /\ agg_seen = {}
    /\ agg_dirty = FALSE
    /\ PureIdle

\* one call linear_interp(data)
Interpolate ==
    /\ mode = "interp"
    /\ interp_ret = "none"
    /\ data' = linear_interp(data).data
    /\ interp_ret' = linear_interp(data).status
    /\ UNCHANGED <<mode, store, latest_ts, pc, ret, readerLoc, data_in, aggLoc,
                   pureVars>>

InterpNext == Interpolate

SpecInterp == InterpInit /\ [][InterpNext]_vars

\* --------------------------------------------- linear_interp: properties

Present(q) == {k \in 1..Len(q) : q[k] # None}
BoundariesPresent(q) == Len(q) > 0 /\ q[1] # None /\ q[Len(q)] # None

\* C9: on a sequence whose first and last elements are present the
\* interpolator returns normally, keeps every present value, and puts at
\* every missing position p, between its nearest present neighbours l and r,
\* the value in[l] + (p - l) * (in[r] - in[l]) / (r - l); nothing is left
\* missing.  [1, None, None, 4] gives [1, 2, 3, 4], [2, None, 8] gives [2, 5, 8].
C9_InterpolatesRuns ==
    (interp_ret # "none" /\ BoundariesPresent(data_in)) =>
        /\ interp_ret = "ok"
        /\ Len(data) = Len(data_in)
        /\ \A p \in 1..Len(data_in) :
            /\ data[p] # None
            /\ data_in[p] # None => data[p] = data_in[p]
            /\ data_in[p] = None =>
                LET l == CHOOSE a \in Present(data_in) :
                            a < p /\ \A b \in Present(data_in) : b < p => b <= a
                    r == CHOOSE a \in Present(data_in) :
                            a > p /\ \A b \in Present(data_in) : b > p => a <= b
                IN (data[p] - data_in[l]) * (r - l)
                       = (p - l) * (data_in[r] - data_in[l])
        /\ data_in = Nums(<<1, None, None, 4>>) => data = Nums(<<1, 2, 3, 4>>)
        /\ data_in = Nums(<<2, None, 8>>) => data = Nums(<<2, 5, 8>>)

\* two separate runs in one sequence
C9_Witness ==
    /\ interp_ret = "ok"
    /\ data_in = Nums(<<2, None, 8, None, 4>>)
    /\ data = Nums(<<2, 5, 8, 6, 4>>)

\* C10 (as claimed): a call on a sequence whose first or last element is
\* missing never returns normally.
C10_BoundaryMissingRaises ==
    (interp_ret # "none" /\ Len(data_in) > 0
        /\ (data_in[1] = None \/ data_in[Len(data_in)] = None)) =>
        interp_ret # "ok"

\* --------------------------------------------------------- TsAggReader

\* 's': dt.timedelta(seconds=1), the marker of the modelled intervals 'ns'
MarkerSeconds == 1

\* get_first_ts: timestamp of the first row at or after start_ts (of the
\* first row at all for None or ''); hits[0] of an empty result raises
get_first_ts(st, start_ts) ==
    LET hits == SelectSeq(st, LAMBDA r : start_ts # None => r.ts >= start_ts)
    IN IF Len(hits) = 0 THEN [status |-> "IndexError", ts |-> None]
       ELSE [status |-> "ok", ts |-> hits[1].ts]

\* strptime with pythondateformat, then pythondateformat2: both accept only
\* a timestamp whose millisecond part is zero; the result counts seconds
Strptime(t) ==
    IF t % TicksPerSec = 0 THEN [status |-> "ok", sec |-> t \div TicksPerSec]
    ELSE [status |-> "ValueError", sec |-> 0]

\* estimate_end_ts: start_date + num * buckets_count * delta, as a tick
estimate_end_ts(first, num, buckets_count) ==
    LET d == Strptime(first)
    IN IF d.status # "ok" THEN [status |-> d.status, ts |-> None]
       ELSE [status |-> "ok",
             ts |-> (d.sec + num * buckets_count * MarkerSeconds) * TicksPerSec]

\* width in ticks of one bucket of the date_histogram with interval 'ns'
Width(num) == num * MarkerSeconds * TicksPerSec

RECURSIVE SumV(_)
SumV(rows) == IF Len(rows) = 0 THEN 0 ELSE rows[1].v + SumV(Tail(rows))

\* the avg aggregation over the rows of one bucket: null when no row of the
\* bucket has a value
Avg(rows) ==
    LET have == SelectSeq(rows, LAMBDA r : r.v # None)
    IN IF Len(have) = 0 THEN None ELSE (SumV(have) * Unit) \div Len(have)

\* the date_histogram over rows: one bucket per interval from the bucket of
\* the first row to the bucket of the last, keyed by its start
Histogram(rows, w) ==
    IF Len(rows) = 0 THEN <<>>
    ELSE LET lo == (rows[1].ts \div w) * w
             hi == (Last(rows).ts \div w) * w
         IN [k \in 1..(((hi - lo) \div w) + 1) |->
                LET key == lo + (k - 1) * w
                IN [key |-> key,
                    value |-> Avg(SelectSeq(rows, LAMBDA r :
                                    r.ts >= key /\ r.ts < key + w))]]

\* read_ts_test: one aggregation query over [start_ts, approx_end_ts)
read_ts_test(st, start_ts, num, buckets_count) ==
    LET e == estimate_end_ts(start_ts, num, buckets_count)
    IN IF e.status # "ok" THEN [status |-> e.status, vs |-> <<>>, ts |-> <<>>]
       ELSE LET h == Histogram(SelectSeq(st, LAMBDA r :
                                   r.ts >= start_ts /\ r.ts < e.ts), Width(num))
            IN [status |-> "ok",
                vs |-> [k \in 1..Len(h) |-> h[k].value],
                ts |-> [k \in 1..Len(h) |-> h[k].key]]

DropLast_Keep(q) == q

\* nvs.pop() / nts.pop()
DropLast(q) == SubSeq(q, 1, Len(q) - 1)

NextStart_First(nts) == nts[1]

\* first_ts = nts[-1]
NextStart(nts) == Last(nts)

AggNewLatest_First(old, tss) == IF Len(tss) > 0 THEN tss[1] ELSE old

\* if len(ts) > 0: self.set_latest(ts[-1])
AggNewLatest(old, tss) == IF Len(tss) > 0 THEN Last(tss) ELSE old

BoundsHaveValue(nvs) == Len(nvs) > 0 => (nvs[1] # None /\ Last(nvs) # None)

AggInit ==
    /\ mode = "agg"
    /\ store = <<>>
    /\ latest_ts = None
    /\ from_ts = None
    /\ to_ts = None
    /\ pc = "idle"
    /\ i = 0
    /\ timestamps = <<>>
    /\ values = <<>>
    /\ res_len = 0
    /\ requests = 0
    /\ ret = NoRet
    /\ snap_len = 0
    /\ hw_before = None
    /\ done_len = 0
    /\ prev = NoPrev
    /\ seen = {}
    /\ data = <<>>
    /\ data_in = <<>>
    /\ interp_ret = "none"
    /\ agg_interval \in {1, 2}
    /\ first_ts = None
    /\ agg_ts = <<>>
    /\ agg_vs = <<>>
    /\ queries = 0
    /\ dropped = None
    /\ stitched = <<>>
    /\ hist_ok = TRUE
    /\ agg_seen = {}
    /\ agg_dirty = FALSE
    /\ PureIdle

\* a writer adds a row later than every stored one, with or without a value
AggAppendRow ==
    /\ mode = "agg"
    /\ \E t \in 0..MaxAggTs :
        /\ (Len(store) > 0 => t > Last(store).ts)
        /\ \E v \in {None, RowVal(t)} :
            store' = Append(store, [ts |-> t, v |-> v])
    /\ agg_dirty' = (agg_dirty \/ pc = "stitching")
    /\ UNCHANGED <<mode, latest_ts, pc, ret, readerLoc, interpVars, pureVars, agg_interval,
                   first_ts, agg_ts, agg_vs, queries, dropped, stitched, hist_ok,
                   agg_seen>>

\* TsAggReader.read() is entered: read_ts_resampled2 up to the loop
\* (lines 223-227)
AggReadStart ==
    /\ mode = "agg"
    /\ pc = "idle"
    /\ LET f == get_first_ts(store, latest_ts)
       IN /\ first_ts' = f.ts
          /\ IF f.status = "ok"
             THEN /\ pc' = "stitching"
                  /\ ret' = NoRet
             ELSE /\ pc' = "idle"
                  /\ ret' = [status |-> f.status, ts |-> <<>>, vs |-> <<>>]
    /\ agg_ts' = <<>>
    /\ agg_vs' = <<>>
    /\ queries' = 0
    /\ dropped' = None
    /\ stitched' = <<>>
    /\ hist_ok' = TRUE
    /\ agg_seen' = agg_seen \cup {ret.ts[k] : k \in 1..Len(ret.ts)}
    /\ agg_dirty' = FALSE
    /\ UNCHANGED <<mode, store, latest_ts, readerLoc, interpVars, pureVars, agg_interval>>

\* one iteration of the while loop (lines 229-243) and, when it breaks, the
\* rest of read() (lines 245-260)
AggQuery ==
    /\ mode = "agg"
    /\ pc = "stitching"
    /\ queries' = queries + 1
    /\ LET q == read_ts_test(store, first_ts, agg_interval, Buckets)
       IN IF q.status # "ok"
          THEN /\ ret' = [status |-> q.status, ts |-> <<>>, vs |-> <<>>]
               /\ pc' = "idle"
               /\ UNCHANGED <<latest_ts, first_ts, agg_ts, agg_vs, dropped,
                              stitched, hist_ok>>
          ELSE IF Len(q.ts) > 1
          THEN /\ first_ts' = NextStart(q.ts)
               /\ agg_vs' = agg_vs \o DropLast(q.vs)
               /\ agg_ts' = agg_ts \o DropLast(q.ts)
               /\ dropped' = Last(q.ts)
               /\ hist_ok' = (hist_ok /\ BoundsHaveValue(q.vs))
               /\ UNCHANGED <<latest_ts, ret, pc, stitched>>
          ELSE LET vs == agg_vs \o q.vs
                   ts == agg_ts \o q.ts
                   r == linear_interp(vs)
               IN /\ agg_vs' = r.data
                  /\ agg_ts' = ts
                  /\ stitched' = vs
                  /\ hist_ok' = (hist_ok /\ BoundsHaveValue(q.vs))
                  /\ pc' = "idle"
                  /\ IF r.status = "ok"
                     THEN /\ latest_ts' = AggNewLatest(latest_ts, ts)
                          /\ ret' = [status |-> "ok", ts |-> ts, vs |-> r.data]
                     ELSE /\ latest_ts' = latest_ts
                          /\ ret' = [status |-> r.status, ts |-> <<>>, vs |-> <<>>]
                  /\ UNCHANGED <<first_ts, dropped>>
    /\ UNCHANGED <<mode, store, readerLoc, interpVars, pureVars, agg_interval, agg_seen,
                   agg_dirty>>

AggNext == AggAppendRow \/ AggReadStart \/ AggQuery

SpecAgg == AggInit /\ [][AggNext]_vars

\* ----------------------------------------------- TsAggReader: properties

AggReturned == mode = "agg" /\ pc = "idle" /\ ret.status = "ok"

Count(q, x) == Cardinality({k \in 1..Len(q) : q[k] = x})

\* C6: after a query that returned more than one bucket the next query
\* starts at the timestamp of the bucket that was dropped, which is not among
\* the buckets kept; in the output of one read no two buckets share a
\* timestamp, and the boundary bucket of the last stitch appears exactly once.
C6_OverlapTrimmed ==
    /\ (mode = "agg" /\ pc = "stitching" /\ queries > 0) =>
            /\ first_ts = dropped
            /\ Count(agg_ts, dropped) = 0
    /\ AggReturned =>
            /\ \A a, b \in 1..Len(ret.ts) : a # b => ret.ts[a] # ret.ts[b]
            /\ queries > 1 => Count(ret.ts, dropped) = 1

C6_Witness ==
    /\ AggReturned
    /\ queries >= 3
    /\ Count(ret.ts, dropped) = 1
    /\ Len(ret.ts) >= 4

\* C7: the bucket timestamps one read returns are strictly increasing, and
\* when there are any the high-water mark equals the last of them.
C7_AscendingAndMark ==
    AggReturned =>
        /\ Ascending(ret.ts)
        /\ ret.ts # <<>> => latest_ts = Last(ret.ts)

C7_Witness ==
    /\ AggReturned
    /\ queries >= 2
    /\ Len(ret.ts) >= 3
    /\ latest_ts = Last(ret.ts)

\* C8: when every histogram of a read began and ended with a bucket that
\* has a value, the stitched sequence handed to the interpolator starts and
\* ends with a value, the interpolator does not fail, and every value the
\* read returns is non-null, one per bucket timestamp.
C8_NoGapReturned ==
    (mode = "agg" /\ pc = "idle" /\ stitched # <<>> /\ hist_ok) =>
        /\ stitched[1] # None
        /\ Last(stitched) # None
        /\ ret.status = "ok"
        /\ Len(ret.vs) = Len(ret.ts)
        /\ \A k \in 1..Len(ret.vs) : ret.vs[k] # None

C8_Witness ==
    /\ AggReturned
    /\ hist_ok
    /\ queries >= 2
    /\ \E k \in 1..Len(stitched) : stitched[k] = None

\* C18: an iteration that receives more than one bucket goes on with a next
\* start strictly later than the current one; the first iteration that
\* receives zero or one bucket leaves the loop and emits what it received;
\* the loop never issues more queries than the store has rows.
C18_LoopProgress ==
    [][(mode = "agg" /\ pc = "stitching" /\ queries' = queries + 1) =>
        LET q == read_ts_test(store, first_ts, agg_interval, Buckets)
        IN /\ (q.status = "ok" /\ Len(q.ts) > 1) =>
                    (pc' = "stitching" /\ first_ts' > first_ts)
           /\ (q.status = "ok" /\ Len(q.ts) <= 1) =>
                    (pc' = "idle" /\ agg_ts' = agg_ts \o q.ts)
           /\ queries' <= Len(store)]_vars

C18_Witness ==
    /\ AggReturned
    /\ queries = 3
    /\ agg_interval = 1
    /\ Len(store) = 3

\* C19 (as claimed): a bucket timestamp returned by an earlier read is never
\* returned by a later read.
C19_NoBucketTwice ==
    AggReturned => \A k \in 1..Len(ret.ts) : ret.ts[k] \notin agg_seen

Emitted(x) ==
    \/ x \in agg_seen
    \/ mode = "agg" /\ ret.status = "ok" /\ \E k \in 1..Len(ret.ts) : ret.ts[k] = x

\* every stored row is on a whole second and carries a value: no read
\* fails on parsing a start or on interpolating
CleanStore ==
    \A k \in 1..Len(store) : store[k].ts % TicksPerSec = 0 /\ store[k].v # None

BucketOf(t) == (t \div Width(agg_interval)) * Width(agg_interval)

AllEmitted == \A k \in 1..Len(store) : Emitted(BucketOf(store[k].ts))

\* C20 (as claimed): the reader never stops for good before later data.  A
\* read is a function of the store and of latest_ts, so a read that ran on
\* an unchanging store and ends with the latest_ts it began with (its last
\* bucket was already returned before) is repeated by every read after it:
\* if reads are to emit every row's bucket eventually, such a read may only
\* happen when every row's bucket has been emitted.
C20_NeverStuckBeforeData ==
    (AggReturned /\ CleanStore /\ ~agg_dirty /\ latest_ts \in agg_seen) =>
        AllEmitted

\* ------------------------------------- logical_delta, estimate_end_ts

DigitChars == <<"0", "1", "2", "3", "4", "5", "6", "7", "8", "9">>

\* str.isdigit() on one (ASCII) character
IsDigit(c) == \E k \in 1..10 : DigitChars[k] = c

DigitVal(c) == (CHOOSE k \in 1..10 : DigitChars[k] = c) - 1

\* ''.join([x for x in interval if x.isdigit()])
DigitsOf(chars) == SelectSeq(chars, IsDigit)

\* ''.join([x for x in interval if not x.isdigit()])
MarkerOf(chars) == SelectSeq(chars, LAMBDA c : ~IsDigit(c))

\* int(num) for a non-empty string of digits
RECURSIVE IntOf(_)
IntOf(ds) ==
    IF Len(ds) = 0 THEN 0
    ELSE IntOf(SubSeq(ds, 1, Len(ds) - 1)) * 10 + DigitVal(Last(ds))

\* the keys of the dict intervals of logical_delta
IntervalKeys ==
    {<<"m", "s">>, <<"s">>, <<"m">>, <<"h">>, <<"d">>, <<"M">>, <<"q">>, <<"y">>}

\* intervals[marker]: a pendulum duration, as calendar months plus
\* milliseconds
IntervalOf(marker) ==
    CASE marker = <<"m", "s">> -> [months |-> 0, ms |-> 1]
      [] marker = <<"s">> -> [months |-> 0, ms |-> 1000]
      [] marker = <<"m">> -> [months |-> 0, ms |-> 60000]
      [] marker = <<"h">> -> [months |-> 0, ms |-> 3600000]
      [] marker = <<"d">> -> [months |-> 0, ms |-> 86400000]
      [] marker = <<"M">> -> [months |-> 1, ms |-> 0]
      [] marker = <<"q">> -> [months |-> 3, ms |-> 0]
      [] marker = <<"y">> -> [months |-> 12, ms |-> 0]

\* logical_delta: int(num) raises ValueError on '', an unknown marker raises
\* KeyError, which is turned into ValueError
logical_delta(chars) ==
    LET num == DigitsOf(chars)
        marker == MarkerOf(chars)
    IN IF Len(num) = 0 \/ marker \notin IntervalKeys
       THEN [status |-> "ValueError", num |-> 0, months |-> 0, ms |-> 0]
       ELSE [status |-> "ok", num |-> IntOf(num),
             months |-> IntOf(num) * IntervalOf(marker).months,
             ms |-> IntOf(num) * IntervalOf(marker).ms]

\* the keys of the dict markers of estimate_end_ts
EndMarkerKeys ==
    {<<"y">>, <<"q">>, <<"M">>, <<"w">>, <<"d">>, <<"h">>, <<"m">>, <<"s">>}

\* markers[mark]: a timedelta, in seconds
EndMarkerSeconds(mark) ==
    CASE mark = <<"y">> -> 365 * 86400
      [] mark = <<"q">> -> 93 * 86400
      [] mark = <<"M">> -> 31 * 86400
      [] mark = <<"w">> -> 8 * 86400
      [] mark = <<"d">> -> 26 * 3600
      [] mark = <<"h">> -> 61 * 60
      [] mark = <<"m">> -> 60
      [] mark = <<"s">> -> 1

\* lines 117-127 of estimate_end_ts: num = int(num) raises ValueError on '',
\* then markers[mark] raises KeyError on an unknown marker; ms holds num * delta
\* in seconds here
end_ts_interval(chars) ==
    LET num == DigitsOf(chars)
        mark == MarkerOf(chars)
    IN IF Len(num) = 0
       THEN [status |-> "ValueError", num |-> 0, months |-> 0, ms |-> 0]
       ELSE IF mark \notin EndMarkerKeys
       THEN [status |-> "KeyError", num |-> 0, months |-> 0, ms |-> 0]
       ELSE [status |-> "ok", num |-> IntOf(num), months |-> 0,
             ms |-> IntOf(num) * EndMarkerSeconds(mark)]

IntervalChars == {"0", "1", "5", "m", "s", "M", "w", "a", "b", "c"}

ParseInit ==
    /\ mode = "parse"
    /\ ReaderIdle
    /\ InterpIdle
    /\ AggIdle
    /\ EstIdle
    /\ CursorIdle
    /\ interval \in SeqsUpTo(IntervalChars, MaxStr)
    /\ parsed = NoParsed
    /\ parsed_end = NoParsed

\* logical_delta(interval) and estimate_end_ts(_, interval, _) are called
Parse ==
    /\ mode = "parse"
    /\ parsed.status = "none"
    /\ parsed' = logical_delta(interval)
    /\ parsed_end' = end_ts_interval(interval)
    /\ UNCHANGED <<mode, store, latest_ts, pc, ret, readerLoc, interpVars, aggLoc,
                   interval, estVars, curVars>>

ParseNext == Parse

SpecParse == ParseInit /\ [][ParseNext]_vars

\* --------------------------------------------- interval parser: properties

\* the unit markers the claim lists: millisecond, second, minute, hour, day,
\* week, month, quarter, year
ClaimedMarkers ==
    {<<"m", "s">>, <<"s">>, <<"m">>, <<"h">>, <<"d">>, <<"w">>, <<"M">>, <<"q">>,
     <<"y">>}

\* C13 (as claimed): the parser fails exactly when the non-digit characters
\* are not one of the nine listed markers or there is no digit; every other
\* input parses to the magnitude its digits denote.
C13_FailsExactlyOnBadInput ==
    parsed.status # "none" =>
        /\ parsed.status = "ValueError" <=>
                (MarkerOf(interval) \notin ClaimedMarkers \/ DigitsOf(interval) = <<>>)
        /\ parsed.status = "ok" => parsed.num = IntOf(DigitsOf(interval))
        /\ interval = <<"1", "5", "m">> =>
                parsed = [status |-> "ok", num |-> 15, months |-> 0, ms |-> 15 * 60000]
        /\ interval = <<"1", "M">> =>
                parsed = [status |-> "ok", num |-> 1, months |-> 1, ms |-> 0]
        /\ interval = <<>> => parsed.status = "ValueError"
        /\ interval = <<"a", "b", "c">> => parsed.status = "ValueError"

\* C14 (as claimed): every interval a parser accepts has magnitude > 0.
C14_MagnitudePositive ==
    /\ parsed.status = "ok" => parsed.num > 0
    /\ parsed_end.status = "ok" => parsed_end.num > 0

\* ------------------------------------------------------- estimate_delta
\* Timestamps are whole seconds; float_timestamp differences are modelled
\* exactly.  The median may be a half, so the model carries twice its value.

\* timestamps[:sample_size]
Sample(tss, sample_size) == SubSeq(tss, 1, Min(Len(tss), sample_size))

\* [x[0] - x[1] for x in zip(timestamps[1:], timestamps[:-1])]
Differences(tss) ==
    IF Len(tss) < 2 THEN <<>>
    ELSE [k \in 1..(Len(tss) - 1) |-> tss[k + 1] - tss[k]]

\* x put into the ascending sequence s
RECURSIVE Insert(_, _)
Insert(s, x) ==
    IF Len(s) = 0 THEN <<x>>
    ELSE IF x <= s[1] THEN <<x>> \o s
    ELSE <<s[1]>> \o Insert(Tail(s), x)

RECURSIVE Sorted(_)
Sorted(s) == IF Len(s) = 0 THEN <<>> ELSE Insert(Sorted(Tail(s)), s[1])

\* a median that takes the upper middle element of an even-length list
Median2_Upper(ds) ==
    LET srt == Sorted(ds)
        n == Len(ds)
    IN 2 * srt[(n \div 2) + 1]

\* twice np.median(ds) for a non-empty list: the middle element of the sorted
\* list, or the mean of the two middle elements
Median2(ds) ==
    LET srt == Sorted(ds)
        n == Len(ds)
    IN IF n % 2 = 1 THEN 2 * srt[(n + 1) \div 2]
       ELSE srt[n \div 2] + srt[(n \div 2) + 1]

\* estimate_delta: timestamps[-1] raises IndexError on an empty list;
\* np.median([]) is nan and pendulum.duration(seconds=nan) raises ValueError
estimate_delta(tss, sample_size) ==
    IF Len(tss) = 0
    THEN [status |-> "IndexError", last_ts |-> 0, delta2 |-> 0]
    ELSE LET differences == Differences(Sample(tss, sample_size))
         IN IF Len(differences) = 0
            THEN [status |-> "ValueError", last_ts |-> 0, delta2 |-> 0]
            ELSE [status |-> "ok", last_ts |-> PyGet(tss, -1),
                  delta2 |-> Median2(differences)]

\* the elements of a set of numbers in ascending order
RECURSIVE Ascend(_)
Ascend(S) ==
    IF S = {} THEN <<>>
    ELSE LET m == CHOOSE x \in S : \A y \in S : x <= y
         IN <<m>> \o Ascend(S \ {m})

EstInit ==
    /\ mode = "est"
    /\ ReaderIdle
    /\ InterpIdle
    /\ AggIdle
    /\ ParseIdle
    /\ CursorIdle
    /\ est_in \in {Ascend(S) : S \in SUBSET (0..MaxEstTs)}
    /\ est_out = NoEst

\* estimate_delta(est_in) is called with the default sample size
Estimate ==
    /\ mode = "est"
    /\ est_out.status = "none"
    /\ est_out' = estimate_delta(est_in, SampleSize)
    /\ UNCHANGED <<mode, store, latest_ts, pc, ret, readerLoc, interpVars, aggLoc,
                   parseVars, est_in, curVars>>

EstNext == Estimate

SpecEst == EstInit /\ [][EstNext]_vars

\* ----------------------------------------------- estimate_delta: properties

\* how many elements of ds are below x, and how many are at most x
Below(ds, x) == Cardinality({j \in 1..Len(ds) : ds[j] < x})
AtMost(ds, x) == Cardinality({j \in 1..Len(ds) : ds[j] <= x})

\* the k-th smallest element of ds, by counting
Kth(ds, k) ==
    CHOOSE x \in {ds[j] : j \in 1..Len(ds)} : Below(ds, x) < k /\ k <= AtMost(ds, x)

\* twice the median of a non-empty list, by counting
MedianByCount2(ds) == Kth(ds, (Len(ds) + 1) \div 2) + Kth(ds, (Len(ds) \div 2) + 1)

\* tss has at least one spacing of c and is spaced exactly c apart but for
\* one gap of 3c, the g-th difference
OneGapAt(tss, c, g) ==
    /\ Len(tss) >= 3
    /\ g \in 1..(Len(tss) - 1)
    /\ \A k \in 1..(Len(tss) - 1) :
            tss[k + 1] - tss[k] = (IF k = g THEN 3 * c ELSE c)

Spacings == 1..MaxEstTs

\* C11 (as claimed): delta is the median of the differences between
\* consecutive timestamps of the input, and for timestamps c apart with one
\* gap of 3c anywhere delta is exactly c.
C11_MedianOfAllDifferences ==
    (est_out.status # "none" /\ Len(est_in) >= 2) =>
        /\ est_out.status = "ok"
        /\ est_out.delta2 = MedianByCount2(Differences(est_in))
        /\ \A c \in Spacings : \A g \in 1..(Len(est_in) - 1) :
                OneGapAt(est_in, c, g) => est_out.delta2 = 2 * c

\* C11 (amended): with fewer than two timestamps the call raises; otherwise
\* delta is the median of the differences between consecutive timestamps
\* among the first sample_size timestamps, and for timestamps c apart with
\* one gap of 3c delta is exactly c when the gap lies after the sample or the
\* sample holds at least three differences.
C11_MedianOfSampleDifferences ==
    est_out.status # "none" =>
        /\ Len(est_in) = 0 => est_out.status = "IndexError"
        /\ Len(est_in) = 1 => est_out.status = "ValueError"
        /\ Len(est_in) >= 2 =>
            /\ est_out.status = "ok"
            /\ est_out.delta2 =
                    MedianByCount2(Differences(SubSeq(est_in, 1, Min(Len(est_in), SampleSize))))
            /\ \A c \in Spacings : \A g \in 1..(Len(est_in) - 1) :
                    (/\ OneGapAt(est_in, c, g)
                     /\ (g >= SampleSize \/ Min(Len(est_in), SampleSize) >= 4))
                        => est_out.delta2 = 2 * c

\* the gap lies inside the sample, the input is longer than the sample, and
\* the estimate is the regular spacing
C11_Witness ==
    /\ est_out.status = "ok"
    /\ Len(est_in) > SampleSize
    /\ \E g \in 1..(SampleSize - 1) : OneGapAt(est_in, 1, g)
    /\ est_out.delta2 = 2

\* C12 (as claimed): every non-empty input yields a cursor whose last_ts is
\* the last element of the full input and whose delta is that of the first
\* sample_size timestamps alone.
C12_CursorForEveryNonEmptyInput ==
    (est_out.status # "none" /\ Len(est_in) >= 1) =>
        /\ est_out.status = "ok"
        /\ est_out.last_ts = est_in[Len(est_in)]
        /\ est_out.delta2 =
                estimate_delta(SubSeq(est_in, 1, Min(Len(est_in), SampleSize)), SampleSize).delta2

\* ----------------------------------------------------------------- TsDelta
\* A timestamp is a day number in a calendar of 365-day years (day 0 is the
\* first of January); a pendulum Duration is a number of calendar months plus
\* a number of days.

MonthLen == <<31, 28, 31, 30, 31, 30, 31, 31, 30, 31, 30, 31>>

RECURSIVE DaysBefore(_)
DaysBefore(m) == IF m = 1 THEN 0 ELSE DaysBefore(m - 1) + MonthLen[m - 1]

MonthOf(t) ==
    CHOOSE m \in 1..12 :
        DaysBefore(m) <= t % 365 /\ t % 365 < DaysBefore(m) + MonthLen[m]

DayOf(t) == (t % 365) - DaysBefore(MonthOf(t)) + 1

\* pendulum's month arithmetic: the day of the month is kept, or cut to the
\* last day of the target month
AddMonths(t, n) ==
    LET total == (t \div 365) * 12 + (MonthOf(t) - 1) + n
        m == (total % 12) + 1
    IN (total \div 12) * 365 + DaysBefore(m) + Min(DayOf(t), MonthLen[m]) - 1

\* DateTime + Duration: the months first, then the exact part
AddDuration(t, dur) == AddMonths(t, dur.months) + dur.days

\* TsDelta.__init__
TsDelta(last_ts, delta_time) ==
    [valid |-> FALSE, last_ts |-> last_ts, delta_time |-> delta_time]

\* the object a reference points to
Obj(h, r) == h.objs[h.refs[r]]

\* TsDelta._next_ts
next_ts(self) == AddDuration(self.last_ts, self.delta_time)

\* TsDelta.read
read(h, r) ==
    [heap |-> [h EXCEPT !.objs[h.refs[r]].last_ts = next_ts(Obj(h, r))],
     value |-> next_ts(Obj(h, r))]

\* a peek that consumes the timestamp
peek_Consuming(h, r) == read(h, r)

\* TsDelta.peek
peek(h, r) == [heap |-> h, value |-> next_ts(Obj(h, r))]

\* a set_latest that leaves the cursor where it was
set_latest_Keep(h, r, latest) == h

\* TsDelta.set_latest
set_latest(h, r, latest) == [h EXCEPT !.objs[h.refs[r]].last_ts = latest]

\* a copy that hands out the same object
copy_Alias(h, r) == [objs |-> h.objs, refs |-> Append(h.refs, h.refs[r])]

\* TsDelta.copy: a new object, and the reference to it
copy(h, r) ==
    [objs |-> Append(h.objs, TsDelta(Obj(h, r).last_ts, Obj(h, r).delta_time)),
     refs |-> Append(h.refs, Len(h.objs) + 1)]

\* 15 and 31 January, and 1 March
StartDays == {14, 30}
RebaseDays == {30, 59}

Deltas == {[months |-> 0, days |-> 1], [months |-> 0, days |-> 7],
           [months |-> 1, days |-> 0]}

\* what is remembered about the calls made through one reference: the
\* cursor as it would be had only these calls been made (shadow), the
\* timestamp it was created with or last rebased to (base), the reads since
\* (reads), the timestamp a read() would have returned right after the last
\* call that was not a peek (expect), and the peeks made since that call
Fresh(obj) ==
    [shadow |-> obj, base |-> obj.last_ts, reads |-> 0, expect |-> next_ts(obj),
     peeks |-> 0]

Refs == 1..Len(heap.refs)

CursorInit ==
    /\ mode = "cursor"
    /\ ReaderIdle
    /\ InterpIdle
    /\ AggIdle
    /\ ParseIdle
    /\ EstIdle
    /\ \E t \in StartDays, dur \in Deltas :
        /\ heap = [objs |-> <<TsDelta(t, dur)>>, refs |-> <<1>>]
        /\ hist = <<Fresh(TsDelta(t, dur))>>
    /\ cur_out = NoOut
    /\ calls = 0

Peek(r) ==
    /\ mode = "cursor"
    /\ calls < MaxCalls
    /\ heap' = peek(heap, r).heap
    /\ cur_out' = [op |-> "peek", obj |-> r, value |-> peek(heap, r).value,
                   peeks |-> hist[r].peeks + 1]
    /\ calls' = calls + 1
    /\ hist' = [hist EXCEPT ![r].peeks = hist[r].peeks + 1]
    /\ UNCHANGED <<mode, store, latest_ts, pc, ret, readerLoc, interpVars, aggLoc,
                   parseVars, estVars>>

Read(r) ==
    /\ mode = "cursor"
    /\ calls < MaxCalls
    /\ heap' = read(heap, r).heap
    /\ cur_out' = [op |-> "read", obj |-> r, value |-> read(heap, r).value,
                   peeks |-> hist[r].peeks]
    /\ calls' = calls + 1
    /\ hist' = [hist EXCEPT ![r] =
                    [shadow |-> [hist[r].shadow EXCEPT !.last_ts = next_ts(hist[r].shadow)],
                     base |-> hist[r].base,
                     reads |-> hist[r].reads + 1,
                     expect |-> next_ts(Obj(heap', r)),
                     peeks |-> 0]]
    /\ UNCHANGED <<mode, store, latest_ts, pc, ret, readerLoc, interpVars, aggLoc,
                   parseVars, estVars>>

SetLatest(r, latest) ==
    /\ mode = "cursor"
    /\ calls < MaxCalls
    /\ heap' = set_latest(heap, r, latest)
    /\ cur_out' = [op |-> "set_latest", obj |-> r, value |-> latest, peeks |-> 0]
    /\ calls' = calls + 1
    /\ hist' = [hist EXCEPT ![r] =
                    [shadow |-> [hist[r].shadow EXCEPT !.last_ts = latest],
                     base |-> latest,
                     reads |-> 0,
                     expect |-> next_ts(Obj(heap', r)),
                     peeks |-> 0]]
    /\ UNCHANGED <<mode, store, latest_ts, pc, ret, readerLoc, interpVars, aggLoc,
                   parseVars, estVars>>

Copy(r) ==
    /\ mode = "cursor"
    /\ calls < MaxCalls
    /\ Len(heap.refs) < MaxCursors
    /\ heap' = copy(heap, r)
    /\ cur_out' = [op |-> "copy", obj |-> r, value |-> Len(heap.refs) + 1,
                   peeks |-> 0]
    /\ calls' = calls + 1
    /\ hist' = Append(hist, Fresh(Obj(heap, r)))
    /\ UNCHANGED <<mode, store, latest_ts, pc, ret, readerLoc, interpVars, aggLoc,
                   parseVars, estVars>>

CursorNext ==
    \E r \in Refs :
        \/ Peek(r)
        \/ Read(r)
        \/ \E latest \in RebaseDays : SetLatest(r, latest)
        \/ Copy(r)

SpecCursor == CursorInit /\ [][CursorNext]_vars

\* ------------------------------------------------------ TsDelta: properties

\* a call was made in this step
Called(op) == mode = "cursor" /\ calls' = calls + 1 /\ cur_out'.op = op

\* C15: peek() returns last_ts + delta_time and leaves every cursor as it
\* was, so consecutive peeks return the same timestamp, and a read() after any
\* number of peeks returns what it would have returned after none.
C15_PeekIsPure ==
    [][/\ Called("peek") =>
            /\ heap' = heap
            /\ cur_out'.value =
                    AddDuration(Obj(heap, cur_out'.obj).last_ts,
                                Obj(heap, cur_out'.obj).delta_time)
            /\ cur_out'.value = hist[cur_out'.obj].expect
       /\ Called("read") => cur_out'.value = hist[cur_out'.obj].expect]_vars

\* a read() right after two peeks, on a cursor of calendar months
C15_Witness ==
    /\ cur_out.op = "read"
    /\ cur_out.peeks = 2
    /\ Obj(heap, cur_out.obj).delta_time.months = 1
    /\ cur_out.value = Obj(heap, cur_out.obj).last_ts

\* k * D for a Duration D
Times(k, dur) == [months |-> k * dur.months, days |-> k * dur.days]

\* C16 (as claimed): last_ts is B + k*D, B the last rebase (or the creation
\* timestamp) and k the reads since; a read() returns the new last_ts; no
\* call changes delta_time.
C16_ClosedForm ==
    mode = "cursor" =>
        /\ \A r \in Refs :
            /\ Obj(heap, r).last_ts =
                    AddDuration(hist[r].base, Times(hist[r].reads, Obj(heap, r).delta_time))
            /\ Obj(heap, r).delta_time = heap.objs[1].delta_time
        /\ cur_out.op = "read" => cur_out.value = Obj(heap, cur_out.obj).last_ts

\* D added to B, k times over
RECURSIVE AddTimes(_, _, _)
AddTimes(b, k, dur) ==
    IF k = 0 THEN b ELSE AddDuration(AddTimes(b, k - 1, dur), dur)

\* C16 (amended): last_ts is the result of adding D k times, one after
\* another, to B, B the last rebase (or the creation timestamp) and k the
\* reads since; this is B + k*D when D has no calendar months; a read()
\* returns the new last_ts; no call changes delta_time.
C16_StepByStep ==
    mode = "cursor" =>
        /\ \A r \in Refs :
            /\ Obj(heap, r).last_ts =
                    AddTimes(hist[r].base, hist[r].reads, Obj(heap, r).delta_time)
            /\ Obj(heap, r).delta_time.months = 0 =>
                    Obj(heap, r).last_ts =
                        AddDuration(hist[r].base,
                                    Times(hist[r].reads, Obj(heap, r).delta_time))
            /\ Obj(heap, r).delta_time = heap.objs[1].delta_time
        /\ cur_out.op = "read" => cur_out.value = Obj(heap, cur_out.obj).last_ts

\* two reads after a rebase to 1 March on a cursor of calendar months have
\* returned 1 April and then 1 May
C16_Witness ==
    /\ cur_out.op = "read"
    /\ cur_out.obj = 1
    /\ hist[1].base = 59
    /\ hist[1].reads = 2
    /\ Obj(heap, 1).delta_time.months = 1
    /\ cur_out.value = 120

\* C17: a copy starts with the last_ts and delta_time of the original, is
\* another object, and under every interleaving of calls each cursor is, and
\* returns, what it would were the calls on the other cursor left out.
C17_CopyIndependent ==
    mode = "cursor" =>
        /\ \A r \in Refs :
            /\ Obj(heap, r).last_ts = hist[r].shadow.last_ts
            /\ Obj(heap, r).delta_time = hist[r].shadow.delta_time
        /\ cur_out.op = "read" => cur_out.value = hist[cur_out.obj].shadow.last_ts
        /\ cur_out.op = "peek" => cur_out.value = next_ts(hist[cur_out.obj].shadow)
        /\ cur_out.op = "copy" =>
            /\ Obj(heap, cur_out.value).last_ts = Obj(heap, cur_out.obj).last_ts
            /\ Obj(heap, cur_out.value).delta_time = Obj(heap, cur_out.obj).delta_time
            /\ heap.refs[cur_out.value] # heap.refs[cur_out.obj]

\* both the original and the copy have been read since the copy was made,
\* and they have moved apart
C17_Witness ==
    /\ Len(heap.refs) = 2
    /\ hist[1].reads >= 1
    /\ hist[2].reads >= 1
    /\ Obj(heap, 1).last_ts # Obj(heap, 2).last_ts
====
